---- MODULE Spec2Model ----
(***************************************************************************)
(* A model of src/src/domb_napari/_widget.py: the napari widgets of        *)
(* domb-napari.  Every widget is a magicgui form; pressing its button      *)
(* runs the widget function on the GUI thread.  Most widgets validate the  *)
(* input, then start a thread_worker generator whose yielded values are    *)
(* delivered, in order, to a _save_* callback on the GUI thread; the       *)
(* callback updates the layer of that name or creates it.                  *)
(*                                                                         *)
(* Specification Spec is the viewer: layers, widget calls, workers and the *)
(* queue of yielded results.  There an array is its shape (and the call    *)
(* that produced it).  The numeric claims are checked on specifications of *)
(* their own (SpecDer, SpecSep, ...), whose Init draws the inputs and      *)
(* whose action applies the routine.                                       *)
(***************************************************************************)
EXTENDS Integers, Sequences, FiniteSets, TLC

VARIABLES
    layers,     \* viewer.layers: a list of layers [name, kind, data, cmap]
    calls,      \* one record per button press: [widget, args, status, pc, exc]
    queue,      \* yielded results waiting for the GUI thread (FIFO)
    cbErrors,   \* exceptions raised inside a _save_* callback
    args,       \* numeric specifications: the inputs drawn by Init
    res         \* numeric specifications: the result of the routine

vars == <<layers, calls, queue, cbErrors, args, res>>

(***************************************************************************)
(* Bounds of the model.                                                    *)
(***************************************************************************)
MaxCalls == 2       \* button presses in one behaviour
MaxT == 3           \* longest axis of an input array in Spec
MaxQueue == 1       \* yielded results waiting for the GUI thread

(***************************************************************************)
(* Python helpers.                                                         *)
(***************************************************************************)
Min(a, b) == IF a < b THEN a ELSE b
Max(a, b) == IF a > b THEN a ELSE b

\* slice(start, stop).indices(n) for a step of 1: negative indices count
\* from the end, both ends are clipped to 0..n.
PyClip(i, n) == IF i < 0 THEN Max(i + n, 0) ELSE Min(i, n)
PySliceLen(start, stop, n) == Max(PyClip(stop, n) - PyClip(start, n), 0)

\* len(x[start::2]) for 0 <= start
PyStride2Len(start, n) == IF start >= n THEN 0 ELSE (n - start + 1) \div 2

\* len(range(n))
PyRangeLen(n) == Max(n, 0)

\* an array of the Spec level: its shape and the call that computed it
\* (0: loaded by the user); nlab is the number of labelled regions of a
\* Labels array (0 for images).
Arr(shape, by) == [shape |-> shape, by |-> by, nlab |-> 0]
Ndim(data) == Len(data.shape)

(***************************************************************************)
(* The viewer's layer list.                                                *)
(***************************************************************************)
Side == 4           \* Y and X length of every input array in Spec

Layer(name, kind, data, cmap) ==
    [name |-> name, kind |-> kind, data |-> data, cmap |-> cmap]

\* viewer.layers[name]: the index of the first layer of that name, 0 for
\* the KeyError.
LayerIndex(L, name) ==
    IF \E i \in 1..Len(L) : L[i].name = name
    THEN CHOOSE i \in 1..Len(L) :
             L[i].name = name /\ \A j \in 1..(i - 1) : L[j].name # name
    ELSE 0

LayerData(L, name) == L[LayerIndex(L, name)].data

\* viewer.layers[name].data = img
SetData(L, name, data) ==
    [L EXCEPT ![LayerIndex(L, name)].data = data]

SetCmap(L, name, cmap) ==
    [L EXCEPT ![LayerIndex(L, name)].cmap = cmap]

\* viewer.add_image(img, name=..., colormap=...) / viewer.add_labels(...)
add_image(L, data, name, cmap) == Append(L, Layer(name, "image", data, cmap))
add_labels(L, data, name) == Append(L, Layer(name, "labels", data, "labels"))

\* what a generator does when it is resumed
Yield(data, name, rg) == [t |-> "yield", data |-> data, name |-> name, rg |-> rg]
Raise(exc) == [t |-> "raise", exc |-> exc]
Return == [t |-> "return"]

\* what a callback leaves behind: the layer list and the exception, if any
CbOk(L) == [layers |-> L, exc |-> "none"]
CbRaise(L, exc) == [layers |-> L, exc |-> exc]

(***************************************************************************)
(* split_channels (Channel Splitter).                                      *)
(***************************************************************************)
\* _save_ch, lines 48-54
_save_ch(L, m) ==
    IF LayerIndex(L, m.name) # 0
    THEN CbOk(SetData(L, m.name, m.data))
    ELSE CbOk(add_image(L, m.data, m.name, "turbo"))

\* _preprocessing, lines 58-77, on a channel of shape ch_shape: the crop,
\* then the filters, which keep the shape.
_preprocessing(a, ch_shape, ch_suffix, id) ==
    IF a.drop_frames
    THEN IF Len(a.frames_range) = 2
         THEN Yield(Arr(<<PySliceLen(a.frames_range[1],
                                     a.frames_range[Len(a.frames_range)],
                                     ch_shape[1])>> \o Tail(ch_shape), id),
                    a.img \o "_" \o ToString(a.frames_range[1]) \o "-"
                          \o ToString(a.frames_range[Len(a.frames_range)])
                          \o ch_suffix,
                    FALSE)
         ELSE Raise("ValueError")
    ELSE Yield(Arr(ch_shape, id), a.img \o ch_suffix, FALSE)

\* np.moveaxis(x, 0, 1) on a shape
moveaxis01(shape) == <<shape[2], shape[1]>> \o SubSeq(shape, 3, Len(shape))

\* _split_channels, lines 56-92, resumed after pc yields
_split_channels(a, L, pc, id) ==
    LET shape == LayerData(L, a.img).shape
        input_shape == IF a.stack_order = "TCXY" THEN shape ELSE moveaxis01(shape)
    IN  IF Len(shape) = 4
        THEN IF pc < PyRangeLen(shape[2])
             THEN IF pc < input_shape[2]
                  THEN _preprocessing(a, <<input_shape[1]>> \o SubSeq(input_shape, 3, 4),
                                      "_ch" \o ToString(pc), id)
                  ELSE Raise("IndexError")
             ELSE Return
        ELSE IF Len(shape) = 3
        THEN IF pc = 0
             THEN _preprocessing(a, shape, "_ch0", id)
             ELSE Return
        ELSE Raise("ValueError")

\* split_channels, lines 39-94: no check on the GUI thread, the worker starts
split_channels_check(a, L) == "none"

split_channels_args ==
    { [img |-> "a", stack_order |-> so, drop_frames |-> df, frames_range |-> fr] :
        so \in {"TCXY", "CTXY"}, df \in BOOLEAN,
        fr \in {<<0, 2>>, <<1>>} }

(***************************************************************************)
(* dw_registration (Stack Aligner).                                        *)
(***************************************************************************)
\* _save_aligned, lines 103-109
_save_aligned(L, m) ==
    IF LayerIndex(L, m.name) # 0
    THEN CbOk(SetCmap(SetData(L, m.name, m.data), m.name, "turbo"))
    ELSE CbOk(add_image(L, m.data, m.name, "turbo"))

\* x[..., c:y-c, c:x-c] on the axes i and i+1 of a shape, y and x given
CropAxes(shape, i, c, y, x) ==
    [k \in 1..Len(shape) |->
        IF k = i THEN PySliceLen(c, y - c, shape[k])
        ELSE IF k = i + 1 THEN PySliceLen(c, x - c, shape[k])
        ELSE shape[k]]

\* lines 116-119: the input crop of the offset series and of the reference
dw_offset_series(a, L) ==
    LET sh == LayerData(L, a.offset_img).shape
    IN  IF a.input_crop # 0 THEN CropAxes(sh, 3, a.input_crop, sh[3], sh[4]) ELSE sh

dw_master_img(a, L) ==
    LET sh == LayerData(L, a.offset_img).shape
        mh == LayerData(L, a.reference_img).shape
    IN  IF a.input_crop # 0 THEN CropAxes(mh, 2, a.input_crop, sh[3], sh[4]) ELSE mh

\* _dw_registration, lines 111-149, resumed after pc yields.  The dipy
\* registration is external: it takes two 2D images that are not empty, and
\* affine.transform resamples a frame onto the grid of the fixed image.
_dw_registration(a, L, pc, id) ==
    LET off == dw_offset_series(a, L)
        mas == dw_master_img(a, L)
        mnd == Len(LayerData(L, a.reference_img).shape)
        ref == IF a.use_reference_img THEN Tail(mas) ELSE SubSeq(off, 3, 4)
        out == <<off[1], 4, ref[1], ref[2]>>
    IN  IF pc > 0 THEN Return
        ELSE IF a.input_crop # 0 /\ mnd < 3 THEN Raise("IndexError")
        ELSE IF a.use_reference_img /\ mas[1] < 2 THEN Raise("IndexError")
        ELSE IF ~a.use_reference_img /\ off[2] < 4 THEN Raise("IndexError")
        ELSE IF Len(ref) # 2 \/ \E k \in 1..Len(ref) : ref[k] = 0
             THEN Raise("ValueError")
        ELSE IF off[2] < 4 THEN Raise("IndexError")
        ELSE IF off[1] = 0 \/ ref # SubSeq(off, 3, 4) THEN Raise("ValueError")
        ELSE Yield(Arr(IF a.output_crop # 0
                       THEN CropAxes(out, 3, a.output_crop, out[3], out[4])
                       ELSE out, id),
                   a.offset_img \o "_xform", FALSE)

\* dw_registration, lines 98-153: the check made on the GUI thread
dw_registration_check(a, L) ==
    IF Ndim(LayerData(L, a.offset_img)) = 4 THEN "none" ELSE "ValueError"

dw_registration_args ==
    { [offset_img |-> "a", reference_img |-> r[1], use_reference_img |-> r[2],
       input_crop |-> c, output_crop |-> c] :
        r \in {<<"a", FALSE>>, <<"b", TRUE>>}, c \in {0, 1} }

(***************************************************************************)
(* split_sep (SEP Splitter).                                               *)
(***************************************************************************)
\* _save_sep, lines 165-178.  _red_green is a local function of der_series
\* (line 276): the name is not defined in split_sep, and the call at line
\* 176 raises NameError after add_image has added the layer.
_save_sep(L, m) ==
    IF LayerIndex(L, m.name) # 0
    THEN CbOk(SetData(L, m.name, m.data))
    ELSE IF m.rg
         THEN CbRaise(add_image(L, m.data, m.name, "turbo"), "NameError")
         ELSE CbOk(add_image(L, m.data, m.name, "turbo"))

\* the length of x - y along axis 0 under numpy's broadcasting; -1 when the
\* shapes do not broadcast
BroadcastLen(n, m) ==
    IF n = m THEN n ELSE IF n = 1 THEN m ELSE IF m = 1 THEN n ELSE -1

\* a slip of line 185: both halves start at frame 0
sep_intra_start_Zero(a) == 0

sep_total_start(a) == IF a.pH_1st_frame = "7.3" THEN 0 ELSE 1
sep_intra_start(a) == IF a.pH_1st_frame = "7.3" THEN 1 ELSE 0

\* _split_sep, lines 180-216: the steps of the generator, in order; each is
\* a yield or the exception that ends the generator.  np.max along an empty
\* axis raises ValueError; so does a subtraction of shapes that do not
\* broadcast.
sep_steps(a, L, id) ==
    LET sh == LayerData(L, a.img).shape
        yx == Tail(sh)
        nt == PyStride2Len(sep_total_start(a), sh[1])
        ni == PyStride2Len(sep_intra_start(a), sh[1])
        ns == BroadcastLen(nt, ni)
        proj(n, name) == IF n = 0 THEN Raise("ValueError")
                         ELSE Yield(Arr(yx, id), a.img \o name, TRUE)
    IN  << Yield(Arr(<<nt>> \o yx, id), a.img \o "_total", FALSE),
           Yield(Arr(<<ni>> \o yx, id), a.img \o "_intra", FALSE) >>
        \o (IF a.calc_projections
            THEN << proj(nt, "_total-projection"),
                    proj(ni, "_intra-projection"),
                    IF ni = 0 THEN Raise("ValueError")
                    ELSE Yield(Arr(yx, id), a.img \o "_intra-mip", FALSE) >>
            ELSE << >>)
        \o (IF a.calc_surface_img
            THEN << IF ns < 0 THEN Raise("ValueError")
                    ELSE Yield(Arr(<<ns>> \o yx, id), a.img \o "_surface", FALSE) >>
                 \o (IF a.calc_projections
                     THEN << proj(ns, "_surface-projection") >>
                     ELSE << >>)
            ELSE << >>)

\* a variant that runs the steps in the reverse order
_split_sep_Reversed(a, L, pc, id) ==
    LET st == sep_steps(a, L, id)
    IN  IF pc < Len(st) THEN st[Len(st) - pc] ELSE Return

_split_sep(a, L, pc, id) ==
    LET st == sep_steps(a, L, id)
    IN  IF pc < Len(st) THEN st[pc + 1] ELSE Return

\* split_sep, lines 158-220
split_sep_check(a, L) ==
    IF Ndim(LayerData(L, a.img)) = 3 THEN "none" ELSE "ValueError"

split_sep_args ==
    { [img |-> "a", pH_1st_frame |-> ph, calc_surface_img |-> cs,
       calc_projections |-> cp] :
        ph \in {"7.3", "6.0"}, cs \in BOOLEAN, cp \in BOOLEAN }

(***************************************************************************)
(* e_app_calc (FRET Calculator).                                           *)
(***************************************************************************)
\* _save_e_app, lines 232-238
_save_e_app(L, m) ==
    IF LayerIndex(L, m.name) # 0
    THEN CbOk(SetData(L, m.name, m.data))
    ELSE CbOk(add_image(L, m.data, m.name, "turbo"))

\* _e_app_calc, lines 240-260.  e_app.Eapp is external (domb.fret): on
\* inputs of one shape it returns images of that shape; what it does with
\* inputs of different shapes is not this repository's code, and both
\* outcomes are modelled (a.eapp_raises).
_e_app_calc(a, L, pc, id) ==
    LET dd == LayerData(L, a.DD_img).shape
        da == LayerData(L, a.DA_img).shape
        aa == LayerData(L, a.AA_img).shape
        name == a.AA_img \o "_" \o a.output_type
    IN  IF (dd # da \/ dd # aa) /\ a.eapp_raises THEN Raise("ValueError")
        ELSE IF pc = 0 THEN Yield(Arr(dd, id), name, FALSE)
        ELSE IF pc = 1 /\ a.save_normalized
             THEN IF Tail(dd) = Tail(aa)
                  THEN Yield(Arr(dd, id), name \o "_norm", FALSE)
                  ELSE Raise("ValueError")
        ELSE Return

\* e_app_calc, lines 225-264: the three inputs are 3D; their shapes are not
\* compared
e_app_calc_check(a, L) ==
    IF /\ Ndim(LayerData(L, a.DD_img)) = 3
       /\ Ndim(LayerData(L, a.DA_img)) = 3
       /\ Ndim(LayerData(L, a.AA_img)) = 3
    THEN "none" ELSE "ValueError"

e_app_calc_args ==
    { [DD_img |-> i[1], DA_img |-> i[2], AA_img |-> i[3], output_type |-> o[1],
       save_normalized |-> o[2], eapp_raises |-> i[4]] :
        i \in {<<"a", "a", "a", TRUE>>, <<"a", "b", "a", TRUE>>,
               <<"a", "b", "a", FALSE>>, <<"b", "b", "a", TRUE>>},
        o \in {<<"Eapp", TRUE>>, <<"Ecorr", FALSE>>, <<"Fc", FALSE>>} }

(***************************************************************************)
(* der_series (Frame Differencer).                                         *)
(***************************************************************************)
\* the number of elements of an array
Size(shape) ==
    IF \E k \in 1..Len(shape) : shape[k] = 0 THEN 0 ELSE 1

\* _save_rg_img, lines 288-299: np.max of an empty array raises ValueError
\* before the layer is added
_save_rg_img(L, m) ==
    IF LayerIndex(L, m.name) # 0
    THEN CbOk(SetData(L, m.name, m.data))
    ELSE IF Size(m.data.shape) = 0
         THEN CbRaise(L, "ValueError")
         ELSE CbOk(add_image(L, m.data, m.name, "red-green"))

\* a slip of the loop bound: the space frames are not counted
der_len_NoSpace(n, left_frames, space_frames, right_frames) ==
    PyRangeLen(n - (left_frames + right_frames))

\* lines 305-319: the loop appends one frame per i in
\* range(n - (left + right + space)); np.asarray of the empty list has shape
\* (0,)
der_len(n, left_frames, space_frames, right_frames) ==
    PyRangeLen(n - (left_frames + right_frames + space_frames))

der_shape(a, L) ==
    LET sh == LayerData(L, a.img).shape
        k == der_len(sh[1], a.left_frames, a.space_frames, a.right_frames)
    IN  IF k = 0 THEN <<0>> ELSE <<k>> \o Tail(sh)

\* _der_series, lines 301-324
_der_series(a, L, pc, id) ==
    LET sh == der_shape(a, L)
    IN  IF pc = 0 THEN Yield(Arr(sh, id), a.img \o "_red-green", FALSE)
        ELSE IF pc = 1 /\ a.save_MIP
             THEN IF sh[1] = 0 THEN Raise("ValueError")
                  ELSE Yield(Arr(Tail(sh), id), a.img \o "_red-green-MIP", FALSE)
        ELSE Return

\* der_series, lines 268-274
der_series_check(a, L) ==
    IF Ndim(LayerData(L, a.img)) # 3 THEN "ValueError" ELSE "none"

der_series_args ==
    { [img |-> "a", left_frames |-> w[1], space_frames |-> w[2],
       right_frames |-> w[3], save_MIP |-> mip] :
        w \in {<<0, 1, 0>>, <<1, 1, 1>>}, mip \in BOOLEAN }

(***************************************************************************)
(* dot_mask_calc, up_mask_calc, mask_calc (Mask Builders).                 *)
(***************************************************************************)
\* _save_dot_labels (339-346), _save_up_labels (395-402), _save_rg_labels
\* (477-484; it adds under labels_name, which is the name it was given)
_save_labels(L, m) ==
    IF LayerIndex(L, m.name) # 0
    THEN CbOk(SetData(L, m.name, m.data))
    ELSE CbOk(add_labels(L, m.data, m.name))

\* x[i] on an axis of length n
PyIndexOk(i, n) == -n <= i /\ i < n

\* _dot_mask_calc, lines 348-374
_dot_mask_calc(a, L, pc, id) ==
    LET sh == LayerData(L, a.img).shape
    IN  IF pc > 0 THEN Return
        ELSE IF sh[1] = 0 THEN Raise("ValueError")
        ELSE Yield(Arr(Tail(sh), id), a.img \o "_dots-labels", FALSE)

dot_mask_calc_check(a, L) ==
    IF Ndim(LayerData(L, a.img)) # 3 THEN "ValueError" ELSE "none"

dot_mask_calc_args == { [img |-> "a"] }

\* a variant that binds up_mask before the loop over the ROIs: a ROI mask
\* without a region gives empty labels instead of the exception
_up_mask_calc_BoundMask(a, L, pc, id) ==
    LET sh == LayerData(L, a.img).shape
        lab == IF a.in_ROIs_det THEN LayerData(L, a.ROIs_mask).shape ELSE Tail(sh)
    IN  IF ~PyIndexOk(a.det_frame_index, sh[1]) THEN Raise("IndexError")
        ELSE IF a.in_ROIs_det /\ a.ROIs_mask = "None" THEN Raise("AttributeError")
        ELSE IF pc = 0 THEN Yield(Arr(lab, id), a.img \o "_up-labels", FALSE)
        ELSE IF pc = 1 /\ a.save_total_up_mask
             THEN Yield(Arr(lab, id), a.img \o "_up-mask", FALSE)
        ELSE Return

\* _up_mask_calc, lines 404-456.  With in_ROIs_det and a ROI mask without
\* a region the loop at 426 never runs, up_mask is not bound and line 450
\* raises UnboundLocalError; without a ROI layer line 424 raises
\* AttributeError.
_up_mask_calc(a, L, pc, id) ==
    LET sh == LayerData(L, a.img).shape
        lab == IF a.in_ROIs_det THEN LayerData(L, a.ROIs_mask).shape ELSE Tail(sh)
    IN  IF ~PyIndexOk(a.det_frame_index, sh[1]) THEN Raise("IndexError")
        ELSE IF a.in_ROIs_det /\ a.ROIs_mask = "None" THEN Raise("AttributeError")
        ELSE IF a.in_ROIs_det /\ LayerData(L, a.ROIs_mask).nlab = 0
             THEN Raise("UnboundLocalError")
        ELSE IF pc = 0 THEN Yield(Arr(lab, id), a.img \o "_up-labels", FALSE)
        ELSE IF pc = 1 /\ a.save_total_up_mask
             THEN Yield(Arr(lab, id), a.img \o "_up-mask", FALSE)
        ELSE Return

up_mask_calc_check(a, L) ==
    IF Ndim(LayerData(L, a.img)) # 3 THEN "ValueError" ELSE "none"

up_mask_calc_args ==
    { [img |-> "a", ROIs_mask |-> r[1], in_ROIs_det |-> r[2], det_frame_index |-> 2,
       save_total_up_mask |-> st] :
        r \in {<<"rois", TRUE>>, <<"empty", TRUE>>, <<"None", TRUE>>, <<"rois", FALSE>>},
        st \in BOOLEAN }

\* _mask_calc, lines 486-508
_mask_calc(a, L, pc, id) ==
    LET sh == LayerData(L, a.img).shape
    IN  IF pc > 0 THEN Return
        ELSE IF ~PyIndexOk(a.det_frame_index, sh[1]) THEN Raise("IndexError")
        ELSE Yield(Arr(Tail(sh), id),
                   a.img \o (IF a.masking_mode = "up" THEN "_up-labels"
                             ELSE "_down-labels"), FALSE)

mask_calc_check(a, L) ==
    IF Ndim(LayerData(L, a.img)) # 3 THEN "ValueError" ELSE "none"

mask_calc_args ==
    { [img |-> "a", det_frame_index |-> 2, masking_mode |-> mm] :
        mm \in {"up", "down"} }

(***************************************************************************)
(* The viewer: button presses, workers, the delivery of yielded results.   *)
(***************************************************************************)
\* the shapes the user's image "a" may have: 2D to 5D
AShapes ==
    {<<Side, Side>>, <<2, 2, 2, Side, Side>>}
    \cup {<<n, Side, Side>> : n \in 1..MaxT}
    \cup {<<t, c, Side, Side>> : t \in 2..MaxT, c \in 2..MaxT}
    \cup {<<1, 4, Side, Side>>, <<5, Side, Side>>}

NoArgs == [none |-> TRUE]

Init ==
    /\ \E sh \in AShapes :
         layers = << Layer("a", "image", Arr(sh, 0), "gray"),
                     Layer("b", "image", Arr(<<2, Side, Side>>, 0), "gray"),
                     Layer("rois", "labels",
                           [shape |-> <<Side, Side>>, by |-> 0, nlab |-> 2], "labels"),
                     Layer("empty", "labels",
                           [shape |-> <<Side, Side>>, by |-> 0, nlab |-> 0], "labels") >>
    /\ calls = << >>
    /\ queue = << >>
    /\ cbErrors = {}
    /\ args = NoArgs
    /\ res = NoArgs

\* the check a widget makes on the GUI thread before it starts its worker:
\* "none", or the exception it raises
Check(w, a, L) ==
    CASE w = "split_channels" -> split_channels_check(a, L)
      [] w = "dw_registration" -> dw_registration_check(a, L)
      [] w = "split_sep" -> split_sep_check(a, L)
      [] w = "e_app_calc" -> e_app_calc_check(a, L)
      [] w = "der_series" -> der_series_check(a, L)
      [] w = "dot_mask_calc" -> dot_mask_calc_check(a, L)
      [] w = "up_mask_calc" -> up_mask_calc_check(a, L)
      [] w = "mask_calc" -> mask_calc_check(a, L)

\* the worker's generator, resumed after pc yields
Resume(w, a, L, pc, id) ==
    CASE w = "split_channels" -> _split_channels(a, L, pc, id)
      [] w = "dw_registration" -> _dw_registration(a, L, pc, id)
      [] w = "split_sep" -> _split_sep(a, L, pc, id)
      [] w = "e_app_calc" -> _e_app_calc(a, L, pc, id)
      [] w = "der_series" -> _der_series(a, L, pc, id)
      [] w = "dot_mask_calc" -> _dot_mask_calc(a, L, pc, id)
      [] w = "up_mask_calc" -> _up_mask_calc(a, L, pc, id)
      [] w = "mask_calc" -> _mask_calc(a, L, pc, id)

\* the callback connected to the worker's yielded signal
Save(w, L, m) ==
    CASE w = "split_channels" -> _save_ch(L, m)
      [] w = "dw_registration" -> _save_aligned(L, m)
      [] w = "split_sep" -> _save_sep(L, m)
      [] w = "e_app_calc" -> _save_e_app(L, m)
      [] w = "der_series" -> _save_rg_img(L, m)
      [] w \in {"dot_mask_calc", "up_mask_calc", "mask_calc"} -> _save_labels(L, m)

\* A button press: the widget function runs on the GUI thread.  It raises,
\* or creates and starts the worker (thread_worker with connect= starts it).
Press(w, a) ==
    /\ Len(calls) < MaxCalls
    /\ calls' = Append(calls,
            [widget |-> w, args |-> a, pc |-> 0, exc |-> Check(w, a, layers),
             status |-> IF Check(w, a, layers) = "none" THEN "running" ELSE "rejected"])
    /\ UNCHANGED <<layers, queue, cbErrors, args, res>>

split_channels == \E a \in split_channels_args : Press("split_channels", a)
dw_registration == \E a \in dw_registration_args : Press("dw_registration", a)
split_sep == \E a \in split_sep_args : Press("split_sep", a)
e_app_calc == \E a \in e_app_calc_args : Press("e_app_calc", a)
der_series == \E a \in der_series_args : Press("der_series", a)
dot_mask_calc == \E a \in dot_mask_calc_args : Press("dot_mask_calc", a)
up_mask_calc == \E a \in up_mask_calc_args : Press("up_mask_calc", a)
mask_calc == \E a \in mask_calc_args : Press("mask_calc", a)

\* A worker thread runs its generator to the next yield (the value is
\* queued for the GUI thread), to an exception or to its end.
WorkerResume ==
    \E i \in 1..Len(calls) :
        /\ calls[i].status = "running"
        /\ Len(queue) < MaxQueue
        /\ LET c == calls[i]
               ev == Resume(c.widget, c.args, layers, c.pc, i)
           IN  /\ queue' = IF ev.t = "yield"
                           THEN Append(queue, [call |-> i, data |-> ev.data,
                                               name |-> ev.name, rg |-> ev.rg])
                           ELSE queue
               /\ calls' = [calls EXCEPT ![i] =
                              IF ev.t = "yield" THEN [c EXCEPT !.pc = c.pc + 1]
                              ELSE IF ev.t = "raise"
                              THEN [c EXCEPT !.status = "raised", !.exc = ev.exc]
                              ELSE [c EXCEPT !.status = "returned"]]
        /\ UNCHANGED <<layers, cbErrors, args, res>>

\* The GUI thread runs the callback on the oldest yielded result.
Deliver ==
    /\ queue # << >>
    /\ LET m == Head(queue)
           r == Save(calls[m.call].widget, layers, m)
       IN  /\ layers' = r.layers
           /\ cbErrors' = IF r.exc = "none" THEN cbErrors
                          ELSE cbErrors \cup {[call |-> m.call, name |-> m.name,
                                               exc |-> r.exc]}
    /\ queue' = Tail(queue)
    /\ UNCHANGED <<calls, args, res>>

Next ==
    \/ split_channels
    \/ dw_registration
    \/ split_sep
    \/ e_app_calc
    \/ der_series
    \/ dot_mask_calc
    \/ up_mask_calc
    \/ mask_calc
    \/ WorkerResume
    \/ Deliver

Spec == Init /\ [][Next]_vars

\* The viewer with the Up Mask builder alone: its presses, workers and
\* deliveries.
NextUp ==
    \/ up_mask_calc
    \/ WorkerResume
    \/ Deliver

SpecUp == Init /\ [][NextUp]_vars

\* The viewer with the SEP Splitter alone.
MaxSepCalls == 1    \* presses of the SEP Splitter in SpecSepViewer

SepPress ==
    /\ Len(calls) < MaxSepCalls
    /\ split_sep

NextSepViewer ==
    \/ SepPress
    \/ WorkerResume
    \/ Deliver

SpecSepViewer == Init /\ [][NextSepViewer]_vars

(***************************************************************************)
(* Claims checked on Spec.                                                 *)
(***************************************************************************)
\* the shape requirement of a widget is violated by the input of a call
ShapeViolation(c) ==
    LET nd(img) == Ndim(LayerData(layers, img))
    IN  CASE c.widget = "split_channels" ->
                \/ nd(c.args.img) \notin {3, 4}
                \/ c.args.drop_frames /\ Len(c.args.frames_range) # 2
          [] c.widget = "dw_registration" -> nd(c.args.offset_img) # 4
          [] c.widget = "e_app_calc" ->
                \/ nd(c.args.DD_img) # 3
                \/ nd(c.args.DA_img) # 3
                \/ nd(c.args.AA_img) # 3
          [] OTHER -> nd(c.args.img) # 3

\* call i has left a trace in the viewer: a queued result or a layer
Touched(i) ==
    \/ \E k \in 1..Len(queue) : queue[k].call = i
    \/ \E k \in 1..Len(layers) : layers[k].data.by = i

\* C1: an input that violates a widget's shape requirement (wrong number of
\* axes; for split_channels with drop_frames a frames_range that does not
\* have 2 elements) makes the call fail on the GUI thread, before a worker
\* is started, and no layer is created or modified.
C1_RejectedBeforeWorker ==
    \A i \in 1..Len(calls) :
        ShapeViolation(calls[i]) =>
            calls[i].status = "rejected" /\ ~Touched(i)

\* the number of layers of a name
NameCount(L, name) == Cardinality({k \in 1..Len(L) : L[k].name = name})

\* C2: every result callback updates the layer of the yielded name if there
\* is one and adds no layer, otherwise creates exactly one layer of that
\* name; it completes without an exception; the viewer never holds two
\* layers of one name.
C2_UpdateElseCreate ==
    /\ [](\A k \in 1..Len(layers) : NameCount(layers, layers[k].name) = 1)
    /\ [][Len(queue') < Len(queue) =>
            LET m == Head(queue)
            IN  /\ cbErrors' = cbErrors
                /\ NameCount(layers', m.name) = 1
                /\ LayerData(layers', m.name) = m.data
                /\ Len(layers') = Len(layers)
                                  + (IF NameCount(layers, m.name) = 0 THEN 1 ELSE 0)
                /\ \A k \in 1..Len(layers) :
                       layers[k].name # m.name => layers'[k] = layers[k]]_vars

\* the time and channel lengths of a 4D input under the call's stack order
TimeLen(c) ==
    LET sh == LayerData(layers, c.args.img).shape
    IN  IF c.args.stack_order = "TCXY" THEN sh[1] ELSE sh[2]

ChannelLen(c) ==
    LET sh == LayerData(layers, c.args.img).shape
    IN  IF c.args.stack_order = "TCXY" THEN sh[2] ELSE sh[1]

\* an output of split_channels call c: the series of one channel, named
\* <image>_ch<i> (behind the frame range when the frames are cropped), with
\* the time length (or that of the cropped range) and the spatial shape
IsChannelSeries(c, name, shape) ==
    LET a == c.args
        sh == LayerData(layers, a.img).shape
    IN  /\ \E ch \in 0..(ChannelLen(c) - 1) :
              name = a.img
                     \o (IF a.drop_frames
                         THEN "_" \o ToString(a.frames_range[1]) \o "-"
                              \o ToString(a.frames_range[2])
                         ELSE "")
                     \o "_ch" \o ToString(ch)
        /\ shape = << IF a.drop_frames
                      THEN PySliceLen(a.frames_range[1], a.frames_range[2], TimeLen(c))
                      ELSE TimeLen(c),
                      sh[3], sh[4] >>

\* C3: on a valid 4D input, under both stack orders, split_channels yields
\* exactly one series per channel of the input, each of the input's time
\* length (cropped with drop_frames) and spatial shape.
C3_OneSeriesPerChannel ==
    \A i \in 1..Len(calls) :
        LET c == calls[i]
        IN  (/\ c.widget = "split_channels"
             /\ Ndim(LayerData(layers, c.args.img)) = 4
             /\ ~ShapeViolation(c))
            => /\ c.status # "raised"
               /\ c.pc <= ChannelLen(c)
               /\ c.status = "returned" => c.pc = ChannelLen(c)
               /\ \A k \in 1..Len(queue) :
                      queue[k].call = i =>
                          IsChannelSeries(c, queue[k].name, queue[k].data.shape)
               /\ \A k \in 1..Len(layers) :
                      layers[k].data.by = i =>
                          IsChannelSeries(c, layers[k].name, layers[k].data.shape)

\* C12: the FRET Calculator rejects its inputs on the GUI thread, starts
\* no worker and writes no layer, unless the three images (DD, DA, AA) are
\* 3D and of one shape.
C12_FretInputsRejected ==
    \A i \in 1..Len(calls) :
        LET c == calls[i]
            shape(img) == LayerData(layers, img).shape
        IN  (/\ c.widget = "e_app_calc"
             /\ ~(/\ Len(shape(c.args.DD_img)) = 3
                  /\ shape(c.args.DA_img) = shape(c.args.DD_img)
                  /\ shape(c.args.AA_img) = shape(c.args.DD_img)))
            => c.status = "rejected" /\ ~Touched(i)

\* C13: an Up Mask call with ROI-scoped detection and no usable ROI mask
\* (no ROI layer, or a ROI layer without a labelled region) never yields: it
\* ends in an exception, and no layer is created or modified by it.
C13_NoRoiNoLayer ==
    \A i \in 1..Len(calls) :
        LET c == calls[i]
        IN  (/\ c.widget = "up_mask_calc"
             /\ c.args.in_ROIs_det
             /\ \/ c.args.ROIs_mask = "None"
                \/ LayerData(layers, c.args.ROIs_mask).nlab = 0)
            => /\ c.status \in {"rejected", "running", "raised"}
               /\ c.pc = 0
               /\ ~Touched(i)
               /\ c.status = "raised" => c.exc # "none"

\* the worker has raised on a ROI layer without a region, on an image whose
\* detection frame exists, and the viewer holds the four input layers only
C13_Witness ==
    \E i \in 1..Len(calls) :
        /\ calls[i].widget = "up_mask_calc"
        /\ calls[i].args.in_ROIs_det
        /\ calls[i].args.ROIs_mask = "empty"
        /\ calls[i].status = "raised"
        /\ calls[i].exc = "UnboundLocalError"
        /\ Len(layers) = 4

\* the suffixes of the results of a split_sep call, in the stated order
SepOrder(a) ==
    <<"_total", "_intra">>
    \o (IF a.calc_projections
        THEN <<"_total-projection", "_intra-projection", "_intra-mip">> ELSE << >>)
    \o (IF a.calc_surface_img THEN <<"_surface">> ELSE << >>)
    \o (IF a.calc_surface_img /\ a.calc_projections
        THEN <<"_surface-projection">> ELSE << >>)

Yielded(j) ==
    {Resume(calls[j].widget, calls[j].args, layers, pc, j) :
        pc \in 0..(calls[j].pc - 1)}

\* C19: when a widget is triggered twice on one image with different
\* parameters, then once both workers are done and their results delivered,
\* every output layer that the later call has a result for holds that
\* result, whatever the order of the two workers' yields.  (Results of a
\* worker that finished before the second trigger are delivered first, so
\* only overlapping calls can differ.  An array of the earlier call that
\* has the shape of the later call's result is let pass, and so are the
\* runs in which a callback has raised.)
C19_LaterCallWins ==
    \A i \in 1..Len(calls) : \A j \in 1..Len(calls) :
        (/\ i < j
         /\ calls[i].widget = calls[j].widget
         /\ calls[i].widget \in {"split_channels", "split_sep", "der_series",
                                 "dot_mask_calc", "up_mask_calc", "mask_calc"}
         /\ calls[i].args.img = calls[j].args.img
         /\ calls[i].args # calls[j].args
         /\ calls[i].status \in {"returned", "raised"}
         /\ calls[j].status \in {"returned", "raised"}
         /\ queue = << >>
         /\ cbErrors = {})
        => \A k \in 1..Len(layers) : \A ev \in Yielded(j) :
               ev.name = layers[k].name =>
                   \/ layers[k].data.by = j
                   \/ layers[k].data.by # i /\ layers[k].data.by # 0
                   \/ layers[k].data.shape = ev.data.shape

(***************************************************************************)
(* The numeric routines, frame by frame.  A series is the sequence of its  *)
(* frames; a frame of the input is named by its index (0-based, as in the  *)
(* source).                                                                *)
(***************************************************************************)
MaxLen == 20        \* longest series of SpecDer and SpecSep
MaxWin == 2         \* largest left_frames, space_frames, right_frames

\* the user's layers do not take part in the numeric specifications
NoViewer ==
    /\ layers = << >>
    /\ calls = << >>
    /\ queue = << >>
    /\ cbErrors = {}

\* the indices of x[start:stop] on an axis of length n, in order
PySlice(start, stop, n) ==
    [k \in 1..PySliceLen(start, stop, n) |-> PyClip(start, n) + k - 1]

\* the indices of x[start::2] on an axis of length n, 0 <= start
PyStride2(start, n) ==
    [k \in 1..PyStride2Len(start, n) |-> start + 2 * (k - 1)]

\* a slip of line 308: the stimulus window starts right behind frame
\* i + left_frames - 1, the right_frames are not skipped
der_img_NoGap(n, left_frames, space_frames, right_frames) ==
    [k \in 1..der_len(n, left_frames, space_frames, right_frames) |->
        LET i == k - 1
        IN  [img_base |-> PySlice(i, i + left_frames + 1, n),
             img_stim |-> PySlice(i + left_frames,
                                  i + left_frames + space_frames + 1, n)]]

\* der_series._der_series, lines 305-317: one difference frame per i, the
\* mean of the stimulus window minus the mean of the baseline window; a
\* frame is kept as the two windows it is computed from
der_img(n, left_frames, space_frames, right_frames) ==
    [k \in 1..der_len(n, left_frames, space_frames, right_frames) |->
        LET i == k - 1
        IN  [img_base |-> PySlice(i, i + left_frames + 1, n),
             img_stim |-> PySlice(i + left_frames + right_frames,
                                  i + left_frames + right_frames + space_frames + 1,
                                  n)]]

InitDer ==
    /\ NoViewer
    /\ args \in [n : 0..MaxLen, left_frames : 0..MaxWin,
                 space_frames : 0..MaxWin, right_frames : 0..MaxWin]
    /\ res = NoArgs

\* the worker of der_series computes the difference series
RunDer ==
    /\ res = NoArgs
    /\ res' = [der_img |-> der_img(args.n, args.left_frames, args.space_frames,
                                   args.right_frames)]
    /\ UNCHANGED <<layers, calls, queue, cbErrors, args>>

NextDer == RunDer

SpecDer == InitDer /\ [][NextDer]_vars

WinSum == args.left_frames + args.space_frames + args.right_frames

\* C5 as stated: the Frame Differencer output has n - (left + space + right)
\* frames, for every input length and every window.
C5_LengthAsStated ==
    res # NoArgs => Len(res.der_img) = args.n - WinSum

\* C5, amended: the output has n - (left + space + right) frames when the
\* windows fit into the series (left + space + right <= n), and is empty
\* otherwise; 20 frames with left = space = right = 1 give 17.
C5_Length ==
    res # NoArgs =>
        /\ WinSum <= args.n => Len(res.der_img) = args.n - WinSum
        /\ WinSum > args.n => Len(res.der_img) = 0

C5_Witness ==
    /\ res # NoArgs
    /\ args.n = 20
    /\ args.left_frames = 1 /\ args.space_frames = 1 /\ args.right_frames = 1
    /\ Len(res.der_img) = 17

\* C18: for every window position i in 0 .. n-(left+space+right)-1 the
\* baseline window holds the frames i .. i+left and the stimulus window the
\* frames i+left+right .. i+left+right+space: both are non-empty and inside
\* the series, and they share no frame when right_frames >= 1.
C18_WindowsInside ==
    res # NoArgs =>
        /\ \A i \in 0..(args.n - WinSum - 1) : i + 1 \in DOMAIN res.der_img
        /\ \A k \in DOMAIN res.der_img :
               LET i == k - 1
                   base == res.der_img[k].img_base
                   stim == res.der_img[k].img_stim
                   frames(s) == {s[j] : j \in 1..Len(s)}
               IN  /\ base = [j \in 1..(args.left_frames + 1) |-> i + j - 1]
                   /\ stim = [j \in 1..(args.space_frames + 1) |->
                                 i + args.left_frames + args.right_frames + j - 1]
                   /\ base # << >> /\ stim # << >>
                   /\ frames(base) \cup frames(stim) \subseteq 0..(args.n - 1)
                   /\ args.right_frames >= 1 => frames(base) \cap frames(stim) = {}

\* the last position of a 6-frame series with left 1, space 2, right 1
C18_Witness ==
    /\ res # NoArgs
    /\ args.n = 6
    /\ args.left_frames = 1 /\ args.space_frames = 2 /\ args.right_frames = 1
    /\ Len(res.der_img) = 2
    /\ res.der_img[2] = [img_base |-> <<1, 2>>, img_stim |-> <<3, 4, 5>>]

(***************************************************************************)
(* split_sep._split_sep, lines 182-190.                                    *)
(***************************************************************************)
sep_total_img(a) == PyStride2(sep_total_start(a), a.n)
sep_intra_img(a) == PyStride2(sep_intra_start(a), a.n)

InitSep ==
    /\ NoViewer
    /\ args \in [n : 0..MaxLen, pH_1st_frame : {"7.3", "6.0"},
                 calc_surface_img : BOOLEAN]
    /\ res = NoArgs

\* the worker of split_sep splits the series (and subtracts the halves)
RunSep ==
    /\ res = NoArgs
    /\ res' = [total_img |-> sep_total_img(args),
               intra_img |-> sep_intra_img(args),
               surface_len |-> IF args.calc_surface_img
                               THEN BroadcastLen(Len(sep_total_img(args)),
                                                 Len(sep_intra_img(args)))
                               ELSE 0]
    /\ UNCHANGED <<layers, calls, queue, cbErrors, args>>

NextSep == RunSep

SpecSep == InitSep /\ [][NextSep]_vars

\* the number of times frame f occurs in a series
Occurrences(series, f) == Cardinality({k \in 1..Len(series) : series[k] = f})

\* C6: the lengths of total and intra add up to the input length (within
\* 1); together they hold every input frame exactly once; with pH_1st_frame
\* '7.3' total holds the even frames and intra the odd ones, with '6.0' it
\* is the other way round.
C6_SepSplit ==
    res # NoArgs =>
        LET parity == IF args.pH_1st_frame = "7.3" THEN 0 ELSE 1
        IN  /\ Len(res.total_img) + Len(res.intra_img) \in (args.n - 1)..(args.n + 1)
            /\ \A f \in 0..(args.n - 1) :
                   Occurrences(res.total_img, f) + Occurrences(res.intra_img, f) = 1
            /\ \A k \in 1..Len(res.total_img) :
                   res.total_img[k] \in 0..(args.n - 1) /\ res.total_img[k] % 2 = parity
            /\ \A k \in 1..Len(res.intra_img) :
                   res.intra_img[k] \in 0..(args.n - 1) /\ res.intra_img[k] % 2 = 1 - parity

C6_Witness ==
    /\ res # NoArgs
    /\ args.n = 5
    /\ args.pH_1st_frame = "6.0"
    /\ res.total_img = <<1, 3>>
    /\ res.intra_img = <<0, 2, 4>>

(***************************************************************************)
(* labels_profile_line (Profile Extractor, one image and one label layer), *)
(* lines 515-619.  Intensities are integers and the arithmetic is exact:   *)
(* a number is a fraction n/d in lowest terms, or NaN or an infinity, as   *)
(* numpy's float division gives them.                                      *)
(***************************************************************************)
MaxFrames == 2      \* longest series of SpecProf
MaxVal == 1         \* largest pixel value of SpecProf
time_scale == 5     \* line 516

RECURSIVE GCD(_, _)
GCD(x, y) == IF y = 0 THEN x ELSE GCD(y, x % y)

Abs(x) == IF x < 0 THEN -x ELSE x

Num(n, d) == [k |-> "num", n |-> n, d |-> d]
NaN == [k |-> "nan", n |-> 0, d |-> 1]
Inf == [k |-> "inf", n |-> 0, d |-> 1]
NegInf == [k |-> "-inf", n |-> 0, d |-> 1]

\* n/d in lowest terms, d # 0
Frac(n, d) ==
    LET g == GCD(Abs(n), Abs(d))
        sg == IF d < 0 THEN -1 ELSE 1
    IN  Num(sg * (n \div g), sg * (d \div g))

FSub(x, y) ==
    IF x.k = "num" /\ y.k = "num" THEN Frac(x.n * y.d - y.n * x.d, x.d * y.d)
    ELSE NaN

\* float division: x/0 is an infinity, 0/0 is NaN
FDiv(x, y) ==
    IF x.k # "num" \/ y.k # "num" THEN NaN
    ELSE IF y.n # 0 THEN Frac(x.n * y.d, x.d * y.n)
    ELSE IF x.n > 0 THEN Inf
    ELSE IF x.n < 0 THEN NegInf
    ELSE NaN

RECURSIVE FSum(_)
FSum(xs) ==
    IF xs = << >> THEN Num(0, 1)
    ELSE LET r == FSum(Tail(xs))
             x == Head(xs)
         IN  IF x.k = "num" /\ r.k = "num"
             THEN Frac(x.n * r.d + r.n * x.d, x.d * r.d)
             ELSE NaN

\* np.mean of a 1-D array: NaN for the empty one
FMean(xs) == FDiv(FSum(xs), Num(Len(xs), 1))

\* the integer nearest to n/d, d > 0, halves to the even one (np.round)
RoundHalfEven(n, d) ==
    LET q == n \div d
        r == n % d
    IN  IF 2 * r < d THEN q
        ELSE IF 2 * r > d THEN q + 1
        ELSE IF q % 2 = 0 THEN q ELSE q + 1

\* np.round(x, decimals) with 10^decimals = scale
FRound(x, scale) ==
    IF x.k # "num" THEN x ELSE Frac(RoundHalfEven(x.n * scale, x.d), scale)

\* the sorted sequence of the elements of a finite set of integers
RECURSIVE SortedSeq(_)
SortedSeq(S) ==
    IF S = {} THEN << >>
    ELSE LET m == CHOOSE x \in S : \A y \in S : x <= y
         IN  <<m>> \o SortedSeq(S \ {m})

\* np.unique(input_labels)
unique(labels) == SortedSeq({labels[p] : p \in DOMAIN labels})

\* line 546: the labels a profile is computed for, np.unique(...)[1:]
profile_labels(labels) == Tail(unique(labels))

\* the sum of the pixels of one frame inside a region
RECURSIVE PixelSum(_, _)
PixelSum(frame, region) ==
    IF region = {} THEN 0
    ELSE LET p == CHOOSE q \in region : TRUE
         IN  frame[p] + PixelSum(frame, region \ {p})

\* line 548: np.mean(input_img, axis=(1,2), where=region_mask), one value
\* per frame
one_prof(img, labels, label_num) ==
    LET region == {p \in DOMAIN labels : labels[p] = label_num}
    IN  [t \in 1..Len(img) |->
            Frac(PixelSum(img[t], region), Cardinality(region))]

\* a slip of line 550: the difference is not divided by F_0
one_prof_df_NoDivision(prof, dF_win) ==
    LET F_0 == FMean(SubSeq(prof, 1, PySliceLen(0, dF_win, Len(prof))))
    IN  [t \in 1..Len(prof) |-> FSub(prof[t], F_0)]

\* lines 549-550: F_0 and (one_prof - F_0) / F_0
one_prof_df(prof, dF_win) ==
    LET F_0 == FMean(SubSeq(prof, 1, PySliceLen(0, dF_win, Len(prof))))
    IN  [t \in 1..Len(prof) |-> FDiv(FSub(prof[t], F_0), F_0)]

\* lines 544-559
profile_raw(a) ==
    LET labs == profile_labels(a.labels)
    IN  [r \in 1..Len(labs) |-> one_prof(a.img, a.labels, labs[r])]

profile_dF(a) ==
    LET raw == profile_raw(a)
    IN  [r \in 1..Len(raw) |-> one_prof_df(raw[r], a.dF_win)]

\* lines 561-569
profile_to_plot(a) ==
    LET prof == IF a.absolute_intensity THEN profile_raw(a) ELSE profile_dF(a)
        scale == IF a.absolute_intensity THEN 1 ELSE 10000
    IN  [r \in 1..Len(prof) |->
            [t \in 1..Len(a.img) |-> FRound(prof[r][t], scale)]]

\* np.linspace(0, stop, num=n, dtype=int)[i]: i * stop / (n - 1), cut to an
\* integer
linspace_int(stop, n, i) == IF n = 1 THEN 0 ELSE (i * stop) \div (n - 1)

\* lines 571-590: the rows of the exported table, one data frame of
\* input_img.shape[0] rows per row of profile_to_plot, in order
csv_rows(a) ==
    LET n == Len(a.img)
        prof == profile_to_plot(a)
    IN  [k \in 1..(Len(prof) * n) |->
            LET num_ROI == (k - 1) \div n
                i == (k - 1) % n
            IN  [roi |-> num_ROI + 1,
                 int |-> prof[num_ROI + 1][i + 1],
                 index |-> linspace_int(n, n, i),
                 time |-> i * time_scale]]


FRank(x) == IF x.k = "-inf" THEN 0 ELSE IF x.k = "num" THEN 1 ELSE 2

\* x < y on floats: false when either is NaN
FLt(x, y) ==
    /\ x.k # "nan" /\ y.k # "nan"
    /\ \/ FRank(x) < FRank(y)
       \/ x.k = "num" /\ y.k = "num" /\ x.n * y.d < y.n * x.d

\* ndarray.min() and .max() of a non-empty 1-D array: NaN if it holds one
FMinOf(xs) ==
    IF \E t \in 1..Len(xs) : xs[t].k = "nan" THEN NaN
    ELSE xs[CHOOSE t \in 1..Len(xs) : \A u \in 1..Len(xs) : ~FLt(xs[u], xs[t])]

FMaxOf(xs) ==
    IF \E t \in 1..Len(xs) : xs[t].k = "nan" THEN NaN
    ELSE xs[CHOOSE t \in 1..Len(xs) : \A u \in 1..Len(xs) : ~FLt(xs[t], xs[u])]

\* line 597: the labels of measure.regionprops, the positive labels
regionprops_labels(labels) == SortedSeq({labels[p] : p \in DOMAIN labels} \ {0})

\* line 594: profile_to_plot[:, r0:r1], one row
crop_profile(a, row) ==
    IF a.profiles_crop
    THEN [t \in 1..PySliceLen(a.profiles_range[1], a.profiles_range[2], Len(row)) |->
             row[PySlice(a.profiles_range[1], a.profiles_range[2], Len(row))[t] + 1]]
    ELSE row

\* lines 605-614: is the profile drawn
plot_condition(a, profile_ROI) ==
    \/ a.absolute_intensity
    \/ FLt(Num(-a.dF_aplitude_lim[1], 1), FMinOf(profile_ROI))
    \/ FLt(FMaxOf(profile_ROI), Num(a.dF_aplitude_lim[2], 1))

\* lines 592-619: the plot.  An exception ends the function: the crop of
\* an array without a profile row (IndexError), a colour without a profile
\* row (IndexError), min() of an empty profile (ValueError), the title
\* that no drawn profile has set (UnboundLocalError).
plot_result(a) ==
    LET prof == profile_to_plot(a)
        k == Len(regionprops_labels(a.labels))
        bad(r) == \/ r > Len(prof)
                  \/ ~a.absolute_intensity /\ Len(crop_profile(a, prof[r])) = 0
        stop == IF \E r \in 1..k : bad(r)
                THEN CHOOSE r \in 1..k : bad(r) /\ \A q \in 1..(r - 1) : ~bad(q)
                ELSE k + 1
        drawn == {r \in 1..(stop - 1) : plot_condition(a, crop_profile(a, prof[r]))}
    IN  [plotted |-> drawn,
         exc |-> IF a.profiles_crop /\ Len(prof) = 0 THEN "IndexError"
                 ELSE IF stop <= k
                 THEN (IF stop > Len(prof) THEN "IndexError" ELSE "ValueError")
                 ELSE IF drawn = {} THEN "UnboundLocalError"
                 ELSE "none"]

\* labels_profile_line, lines 515-619
labels_profile_line_result(a) ==
    [profile_raw |-> profile_raw(a),
     profile_dF |-> profile_dF(a),
     saved |-> a.save_data_frame,
     csv |-> IF a.save_data_frame THEN csv_rows(a) ELSE << >>,
     plotted |-> IF a.profiles_crop /\ Len(profile_to_plot(a)) = 0 THEN {}
                 ELSE plot_result(a).plotted,
     exc |-> plot_result(a).exc]

\* the inputs of SpecProf: frames of two pixels, labels 0 (background), 1
\* and 2
ProfPixels == {1, 2}
ProfLabels == {0, 1, 2}
ProfImages ==
    UNION {[1..n -> [ProfPixels -> 0..MaxVal]] : n \in 1..MaxFrames}

InitProf ==
    /\ NoViewer
    /\ args \in [img : ProfImages,
                 labels : [ProfPixels -> ProfLabels],
                 dF_win : 0..MaxFrames,
                 absolute_intensity : BOOLEAN,
                 dF_aplitude_lim : {<<1, 1>>},
                 profiles_crop : BOOLEAN,
                 profiles_range : {<<0, 1>>},
                 save_data_frame : {TRUE}]
    /\ res = NoArgs

\* the button of the Profile Extractor: the function runs on the GUI thread
labels_profile_line ==
    /\ res = NoArgs
    /\ res' = labels_profile_line_result(args)
    /\ UNCHANGED <<layers, calls, queue, cbErrors, args>>

NextProf == labels_profile_line

SpecProf == InitProf /\ [][NextProf]_vars

\* the raw trace of profile row r is constant over time
ConstantTrace(r) ==
    \A t \in 1..Len(res.profile_raw[r]) : res.profile_raw[r][t] = res.profile_raw[r][1]

\* C8 as stated: the dF/F0 trace of a region whose raw trace is constant is
\* exactly 0 at every frame, for every constant and every window.
C8_ZeroAsStated ==
    res # NoArgs =>
        \A r \in 1..Len(res.profile_raw) :
            ConstantTrace(r) =>
                \A t \in 1..Len(res.profile_dF[r]) : res.profile_dF[r][t] = Num(0, 1)

\* C8, amended: the dF/F0 trace of a region whose raw trace is a constant
\* c is exactly 0 at every frame when c # 0 and the window holds a frame
\* (dF_win >= 1); when c = 0 or dF_win = 0 it is NaN at every frame (0/0,
\* the mean of no frame).
C8_ZeroOrNaN ==
    res # NoArgs =>
        \A r \in 1..Len(res.profile_raw) :
            ConstantTrace(r) =>
                \A t \in 1..Len(res.profile_dF[r]) :
                    res.profile_dF[r][t] =
                        IF res.profile_raw[r][1].n # 0 /\ args.dF_win >= 1
                        THEN Num(0, 1) ELSE NaN

C8_Witness ==
    /\ res # NoArgs
    /\ args.dF_win = 1
    /\ \E r \in 1..Len(res.profile_raw) :
           /\ res.profile_raw[r] = <<Num(1, 1), Num(1, 1)>>
           /\ res.profile_dF[r] = <<Num(0, 1), Num(0, 1)>>

\* C10: the exported table has (number of ROIs) x (number of frames) rows,
\* one row per ROI of the label layer and frame, with and without the crop
\* of the plotted profiles.
C10_RowPerRoiAndFrame ==
    (res # NoArgs /\ res.saved) =>
        LET k == Cardinality({args.labels[p] : p \in DOMAIN args.labels} \ {0})
            n == Len(args.img)
        IN  /\ Len(res.csv) = k * n
            /\ \A roi \in 1..k : \A i \in 0..(n - 1) :
                   Cardinality({j \in 1..Len(res.csv) :
                                   /\ res.csv[j].roi = roi
                                   /\ res.csv[j].time = i * time_scale}) = 1

\* C15: the Profile Extractor computes one trace per positive label value
\* of the label array, in ascending label order, with or without a
\* background (0) pixel in the array; the number of traces is the number of
\* labelled regions that the plot takes its colours from.
C15_TracePerPositiveLabel ==
    res # NoArgs =>
        LET positive == SortedSeq({args.labels[p] : p \in DOMAIN args.labels} \ {0})
        IN  /\ Len(res.profile_raw) = Len(positive)
            /\ \A r \in 1..Len(positive) :
                   r <= Len(res.profile_raw) =>
                       res.profile_raw[r] = one_prof(args.img, args.labels, positive[r])
            /\ Len(res.profile_raw) = Len(regionprops_labels(args.labels))

\* C16: in dF/F0 mode the profile of a ROI is plotted iff its minimum is
\* above -lim[0] or its maximum is below lim[1], and is skipped only when
\* min <= -lim[0] and max >= lim[1]; in absolute-intensity mode every
\* profile is plotted.  A ROI is a labelled region of the label array, its
\* profile the row of the (cropped) plotted profiles at its rank.
C16_PlottedUnlessBothViolated ==
    res # NoArgs =>
        LET lo == Num(-args.dF_aplitude_lim[1], 1)
            hi == Num(args.dF_aplitude_lim[2], 1)
            FLe(x, y) == x.k # "nan" /\ y.k # "nan" /\ ~FLt(y, x)
            rows == profile_to_plot(args)
        IN  \A r \in 1..Len(regionprops_labels(args.labels)) :
                /\ r <= Len(rows)
                /\ LET profile_ROI == crop_profile(args, rows[r])
                   IN  IF args.absolute_intensity
                       THEN r \in res.plotted
                       ELSE /\ Len(profile_ROI) > 0
                            /\ r \in res.plotted <=>
                                   \/ FLt(lo, FMinOf(profile_ROI))
                                   \/ FLt(FMaxOf(profile_ROI), hi)
                            /\ r \notin res.plotted =>
                                   /\ FLe(FMinOf(profile_ROI), lo)
                                   /\ FLe(hi, FMaxOf(profile_ROI))

\* C17: in the exported table the frame-index column of every ROI of an
\* n-frame series is 0, 1, ..., n-1, row by row with the intensity and the
\* time of the frame, and the ROI column numbers the ROIs that have a
\* profile 1..k.
C17_IndexColumn ==
    (res # NoArgs /\ res.saved) =>
        LET k == Len(res.profile_raw)
            n == Len(args.img)
        IN  /\ {res.csv[j].roi : j \in 1..Len(res.csv)} = 1..k
            /\ \A j \in 1..Len(res.csv) :
                   /\ res.csv[j].index = (j - 1) % n
                   /\ res.csv[j].time = res.csv[j].index * time_scale
                   /\ res.csv[j].roi = ((j - 1) \div n) + 1

-----------------------------------------------------------------------------
\* Pixel-level model of the mask builders.  An image is a function from a
\* set of pixels <<row, column>> to integers, a binary mask the set of its
\* True pixels, a label array a function from pixels to label ids.

GridW == 5
DotH == 5
DotW == 8
RoiH == 2
RoiW == 2

Rect(y0, x0, y1, x1) == (y0..(y1 - 1)) \X (x0..(x1 - 1))
Grid == Rect(0, 0, 2, GridW)
DotGrid == Rect(0, 0, DotH, DotW)
RoiGrid == Rect(0, 0, RoiH, RoiW)

Shift(p, d) == <<p[1] + d[1], p[2] + d[2]>>
N4 == {<<-1, 0>>, <<1, 0>>, <<0, -1>>, <<0, 1>>}
N8 == ((-1..1) \X (-1..1)) \ {<<0, 0>>}

\* morphology.disk(radius): the offsets within the radius
disk(radius) ==
    {d \in ((-radius)..radius) \X ((-radius)..radius) :
        d[1] * d[1] + d[2] * d[2] <= radius * radius}

\* morphology.erosion / dilation of a binary image on the pixels G: a
\* neighbour outside the image is a reflected pixel of the footprint's
\* window, so it never changes the minimum or the maximum
erosion(m, G, footprint) ==
    {p \in G : \A d \in footprint : Shift(p, d) \in G => Shift(p, d) \in m}
dilation(m, G, footprint) ==
    {p \in G : \E d \in footprint : Shift(p, d) \in m}
opening(m, G, footprint) == dilation(erosion(m, G, footprint), G, footprint)

\* the pixels of `allowed` connected to `seen` through the offsets `offs`
RECURSIVE FloodFrom(_, _, _, _)
FloodFrom(front, seen, allowed, offs) ==
    LET new == {q \in {Shift(p, d) : p \in front, d \in offs} : q \in allowed /\ q \notin seen}
    IN  IF new = {} THEN seen ELSE FloodFrom(new, seen \cup new, allowed, offs)

Flood(seeds, allowed, offs) == FloodFrom(seeds, seeds, allowed, offs)

\* ndi.binary_fill_holes: the background not 4-connected to the outside of
\* the image is filled
binary_fill_holes(m, G) ==
    LET edge == {p \in G \ m : \E d \in N4 : Shift(p, d) \notin G}
    IN  G \ Flood(edge, G \ m, N4)

RasterMin(S) ==
    CHOOSE p \in S : \A q \in S :
        p[1] < q[1] \/ (p[1] = q[1] /\ p[2] <= q[2])

ZeroLabels(G) == [p \in G |-> 0]

\* measure.label of a binary image: the 8-connected components numbered
\* 1, 2, ... in raster order of their first pixel, background 0
RECURSIVE label_from(_, _, _)
label_from(rest, k, acc) ==
    IF rest = {} THEN acc
    ELSE LET comp == Flood({RasterMin(rest)}, rest, N8)
         IN  label_from(rest \ comp, k + 1,
                        [p \in DOMAIN acc |-> IF p \in comp THEN k ELSE acc[p]])

\* mutant of label: the components are numbered from 0
label_FromZero(m, G) == label_from(m, 0, ZeroLabels(G))

label(m, G) == label_from(m, 1, ZeroLabels(G))

\* np.max(labels) of a non-empty array
np_max(f) == CHOOSE v \in {f[p] : p \in DOMAIN f} : \A q \in DOMAIN f : f[q] <= v
MaxAbs(img) == np_max([p \in DOMAIN img |-> Abs(img[p])])
PositiveLabels(f) == {f[p] : p \in DOMAIN f} \ {0}

\* mask_calc._mask_calc, lines 488-506: the detection frame thresholded at
\* a fraction th.n / th.d of its largest magnitude, cleaned and labelled
mask_calc_mask(a) ==
    LET det == a.img[a.det_frame_index + 1]
        G == DOMAIN det
        mx == MaxAbs(det)
        th == IF a.masking_mode = "up" THEN a.up_threshold ELSE a.down_threshold
        m0 == IF a.masking_mode = "up"
              THEN {p \in G : det[p] * th.d >= mx * th.n}
              ELSE {p \in G : det[p] * th.d <= mx * th.n}
        m1 == erosion(m0, G, disk(2))
        m2 == dilation(m1, G, disk(1))
        m3 == binary_fill_holes(m2, G)
    IN  IF a.opening_footprint # 0
        THEN dilation(opening(m3, G, disk(a.opening_footprint)), G, disk(1))
        ELSE m3

mask_calc_result(a) ==
    LET mask == mask_calc_mask(a)
        labels == label(mask, DOMAIN a.img[a.det_frame_index + 1])
    IN  [w |-> "mask_calc", exc |-> "none", detected |-> mask, mask |-> mask,
         labels |-> labels, info |-> np_max(labels)]

np_min(f) == CHOOSE v \in {f[p] : p \in DOMAIN f} : \A q \in DOMAIN f : v <= f[q]

RECURSIVE SumUpTo(_, _, _)
SumUpTo(img, lo, t) ==
    IF t < lo THEN 0
    ELSE t * Cardinality({p \in DOMAIN img : img[p] = t}) + SumUpTo(img, lo, t - 1)

\* filters.threshold_otsu of an integer image: one histogram bin per integer
\* level, the first level that maximises the between-class variance
\* w1 * w2 * (mean1 - mean2)^2; the only level of a one-level image
threshold_otsu(img) ==
    LET lo == np_min(img)
        hi == np_max(img)
        w1(t) == Cardinality({p \in DOMAIN img : img[p] <= t})
        w2(t) == Cardinality({p \in DOMAIN img : img[p] > t})
        s1(t) == SumUpTo(img, lo, t)
        s2(t) == SumUpTo(img, lo, hi) - s1(t)
        d(t) == s1(t) * w2(t) - s2(t) * w1(t)
        \* variance at t is less than the variance at u
        less(t, u) == d(t) * d(t) * w1(u) * w2(u) < d(u) * d(u) * w1(t) * w2(t)
    IN  IF lo = hi THEN lo
        ELSE CHOOSE t \in lo..(hi - 1) :
                 /\ \A u \in lo..(hi - 1) : ~less(t, u)
                 /\ \A u \in lo..(t - 1) : less(u, t)

\* up_mask_calc._up_mask_calc.up_detection, lines 409-421; th is th * div
up_detection(img, method, th, op_f, d_f) ==
    LET G == DOMAIN img
        mx == MaxAbs(img)
        t0 == {p \in G : img[p] * th.d > mx * th.n}
        up_m == IF method = "threshold"
                THEN binary_fill_holes(
                         dilation(erosion(t0, G, disk(2)), G, disk(1)), G)
                ELSE {p \in G : img[p] > threshold_otsu(img)}
        opened == IF op_f # 0 THEN opening(up_m, G, disk(op_f)) ELSE up_m
    IN  dilation(opened, G, disk(d_f))

\* th * div of the call of up_detection, lines 433-434 and 444-445
up_th(a) ==
    LET div == IF a.in_ROIs_det THEN a.in_ROIs_det_th_corr ELSE [n |-> 1, d |-> 10]
    IN  [n |-> a.det_th.n * div.n, d |-> a.det_th.d * div.d]

\* roi_region.bbox of the pixels that carry one label
bbox(rois, lab) ==
    LET P == {p \in DOMAIN rois : rois[p] = lab}
        rows == {p[1] : p \in P}
        cols == {p[2] : p \in P}
        lo(S) == CHOOSE v \in S : \A u \in S : v <= u
        hi(S) == CHOOSE v \in S : \A u \in S : u <= v
    IN  Rect(lo(rows), lo(cols), hi(rows) + 1, hi(cols) + 1)

\* one pass of the ROI loop, lines 427-439: the detection inside the ROI's
\* bounding box, zeroed where the ROI mask is 0, times the ROI's label,
\* written over the whole bounding box
one_roi_labels(a, lab, up_labels) ==
    LET rois == a.ROIs_mask
        box == bbox(rois, lab)
        one_roi_img == [p \in box |-> a.img[a.det_frame_index + 1][p]]
        one_roi_input_mask == {p \in box : rois[p] = 0}
        one_roi_mask == up_detection(one_roi_img, a.in_ROIs_det_method, up_th(a),
                                     a.final_opening_fp, a.final_dilation_fp)
                            \ one_roi_input_mask
    IN  [p \in DOMAIN up_labels |->
            IF p \in box
            THEN (IF p \in one_roi_mask THEN lab ELSE 0)
            ELSE up_labels[p]]

\* the loop over measure.regionprops(rois_mask), in ascending label order
RECURSIVE roi_loop(_, _, _)
roi_loop(a, labs, up_labels) ==
    IF labs = << >> THEN up_labels
    ELSE roi_loop(a, Tail(labs), one_roi_labels(a, Head(labs), up_labels))

\* up_mask_calc._up_mask_calc, lines 406-456
up_mask_calc_result(a) ==
    LET det == a.img[a.det_frame_index + 1]
        G == DOMAIN det
    IN  IF a.in_ROIs_det
        THEN LET regions == SortedSeq(PositiveLabels(a.ROIs_mask))
                 up_labels == roi_loop(a, regions, ZeroLabels(G))
                 up_mask == {p \in G : up_labels[p] > 0}
             IN  IF regions = << >>
                 THEN [w |-> "up_mask_calc", exc |-> "UnboundLocalError"]
                 ELSE [w |-> "up_mask_calc", exc |-> "none", detected |-> up_mask,
                       mask |-> up_mask,
                       labels |-> up_labels, info |-> np_max(label(up_mask, G))]
        ELSE LET up_mask == up_detection(det, "threshold", up_th(a),
                                         a.final_opening_fp, a.final_dilation_fp)
                 up_labels == label(up_mask, G)
             IN  [w |-> "up_mask_calc", exc |-> "none", detected |-> up_mask,
                       mask |-> up_mask,
                  labels |-> up_labels, info |-> np_max(label(up_mask, G))]

\* np.max(input_img, axis=0)
mip(img) ==
    [p \in DOMAIN img[1] |->
        CHOOSE v \in {img[t][p] : t \in 1..Len(img)} :
            \A t \in 1..Len(img) : img[t][p] <= v]

\* the i-th value (from 0) of the sorted pixel values
SortedAt(x, i) ==
    CHOOSE v \in {x[q] : q \in DOMAIN x} :
        /\ Cardinality({q \in DOMAIN x : x[q] <= v}) > i
        /\ Cardinality({q \in DOMAIN x : x[q] < v}) <= i

\* np.percentile(x, p), linear interpolation, as a fraction of 100
percentile(x, p) ==
    LET pos == (Cardinality(DOMAIN x) - 1) * p
        lo == pos \div 100
        r == pos % 100
        v == SortedAt(x, lo)
    IN  IF r = 0 THEN 100 * v
        ELSE 100 * v + r * (SortedAt(x, lo + 1) - v)

\* line 350, prc_filt on an integer image: x - percentile, clipped at 0,
\* cast back to the integer dtype
prc_filt(x, p) ==
    [q \in DOMAIN x |->
        LET v == 100 * x[q] - percentile(x, p)
        IN  IF v <= 0 THEN 0 ELSE v \div 100]

None == [k |-> "none", n |-> 0, d |-> 1]

Cheb(p, q) == Max(Abs(p[1] - q[1]), Abs(p[2] - q[2]))

\* the greedy thinning of the peaks, highest first and in raster order
\* among equals: a kept peak rejects the peaks closer than the spacing
RECURSIVE ensure_spacing(_, _, _)
ensure_spacing(S, image, spacing) ==
    IF S = {} THEN {}
    ELSE LET c == CHOOSE p \in S : \A q \in S :
                      \/ image[p] > image[q]
                      \/ image[p] = image[q] /\ RasterMin({p, q}) = p
         IN  {c} \cup ensure_spacing({q \in S \ {c} : Cheb(c, q) >= spacing},
                                     image, spacing)

\* feature.peak_local_max(image, min_distance, threshold_rel): the pixels
\* that equal the maximum of their (2 min_distance + 1)-square window, lie
\* min_distance away from the border and exceed the threshold
\* max(image.min(), threshold_rel * image.max())
peak_local_max(image, min_distance, threshold_rel) ==
    LET G == DOMAIN image
        win == ((-min_distance)..min_distance) \X ((-min_distance)..min_distance)
        above(p) ==
            /\ image[p] > np_min(image)
            /\ threshold_rel.k = "num" =>
                   image[p] * threshold_rel.d > threshold_rel.n * np_max(image)
        peak(p) ==
            /\ \A d \in win : Shift(p, d) \in G /\ image[Shift(p, d)] <= image[p]
            /\ above(p)
    IN  IF min_distance = 0
        THEN {p \in G : above(p)}
        ELSE ensure_spacing({p \in G : peak(p)}, image, min_distance)

\* ndi.distance_transform_edt, squared: the distance of a mask pixel to the
\* nearest pixel outside the mask; without such a pixel the distance is
\* taken from index (-1, -1)
distance_transform_edt(m, G) ==
    LET sq(p, q) == (p[1] - q[1]) * (p[1] - q[1]) + (p[2] - q[2]) * (p[2] - q[2])
        D(p) == {sq(p, q) : q \in G \ m}
    IN  [p \in G |->
            IF p \notin m THEN 0
            ELSE IF m = G THEN sq(p, <<-1, -1>>)
            ELSE CHOOSE v \in D(p) : \A u \in D(p) : v <= u]

\* segmentation.watershed(-dist, markers, mask, compactness): 0 outside
\* the mask, a marker keeps its label, a mask pixel 4-connected to markers
\* takes the label of the nearest of them (the smallest label among equals)
watershed(markers, m, G) ==
    LET sq(p, q) == (p[1] - q[1]) * (p[1] - q[1]) + (p[2] - q[2]) * (p[2] - q[2])
        seeds == {q \in m : markers[q] # 0}
        basin(p) == Flood({p}, m, N4) \cap seeds
        nearest(p) == {q \in basin(p) : \A u \in basin(p) : sq(p, q) <= sq(p, u)}
    IN  [p \in G |->
            IF p \notin m THEN 0
            ELSE IF markers[p] # 0 THEN markers[p]
            ELSE IF basin(p) = {} THEN 0
            ELSE np_min([q \in nearest(p) |-> markers[q]])]

\* dot_mask_calc._dot_mask_calc, lines 350-374
dot_mask_calc_result(a) ==
    LET input_mip == mip(a.img)
        G == DOMAIN input_mip
        detection_mip == prc_filt(input_mip, a.background_level)
        peaks_img == peak_local_max(detection_mip, 2, Num(a.detection_level, 100))
        peaks_mask == dilation(peaks_img, G, disk(a.mask_diamets))
        mask_dist_img == distance_transform_edt(peaks_mask, G)
        mask_centers == peak_local_max(mask_dist_img, a.minimal_distance, None)
        peaks_labels == watershed(label(mask_centers, G), peaks_mask, G)
    IN  [w |-> "dot_mask_calc", exc |-> "none", detected |-> mask_centers,
         mask |-> peaks_mask, labels |-> peaks_labels, info |-> np_max(peaks_labels)]

\* the images that are 0 except for one or two bright pixels
SpotImages(G) ==
    {[p \in G |-> IF p = s1 THEN 2 ELSE IF p = s2 THEN v ELSE 0] :
        s1 \in G, s2 \in G, v \in {1, 2}}

DotMaskCalcArgs ==
    [w : {"dot_mask_calc"}, img : {<<f>> : f \in SpotImages(DotGrid)},
     background_level : {75}, detection_level : {25},
     minimal_distance : {2}, mask_diamets : {1}]

\* The mask builders on every binary detection frame of the grid
MaskCalcArgs ==
    [w : {"mask_calc"}, img : {<<f>> : f \in [Grid -> {0, 1}]},
     det_frame_index : {0}, masking_mode : {"up"},
     up_threshold : {[n |-> 1, d |-> 5]}, down_threshold : {[n |-> -9, d |-> 10]},
     opening_footprint : {0, 1}]
    \cup
    [w : {"mask_calc"}, img : {<<f>> : f \in [Grid -> {-1, 0}]},
     det_frame_index : {0}, masking_mode : {"down"},
     up_threshold : {[n |-> 1, d |-> 5]}, down_threshold : {[n |-> -9, d |-> 10]},
     opening_footprint : {0, 1}]

UpMaskCalcArgs ==
    [w : {"up_mask_calc"}, img : {<<f>> : f \in [Grid -> {0, 1}]},
     det_frame_index : {0}, det_th : {[n |-> 1, d |-> 4]}, in_ROIs_det : {FALSE},
     final_opening_fp : {0, 1}, final_dilation_fp : {0, 1}]

InitMask ==
    /\ NoViewer
    /\ args \in MaskCalcArgs \cup UpMaskCalcArgs \cup DotMaskCalcArgs
    /\ res = NoArgs

RunMaskCalc ==
    /\ res = NoArgs
    /\ args.w = "mask_calc"
    /\ res' = mask_calc_result(args)
    /\ UNCHANGED <<layers, calls, queue, cbErrors, args>>

RunUpMaskCalc ==
    /\ res = NoArgs
    /\ args.w = "up_mask_calc"
    /\ res' = up_mask_calc_result(args)
    /\ UNCHANGED <<layers, calls, queue, cbErrors, args>>

RunDotMaskCalc ==
    /\ res = NoArgs
    /\ args.w = "dot_mask_calc"
    /\ res' = dot_mask_calc_result(args)
    /\ UNCHANGED <<layers, calls, queue, cbErrors, args>>

NextMask == RunMaskCalc \/ RunUpMaskCalc \/ RunDotMaskCalc

SpecMask == InitMask /\ [][NextMask]_vars

\* C7: label 0 is never the id of a detected region (every detected pixel
\* carries a nonzero label, no pixel outside the mask does), and without
\* ROI scoping
\* the count of the status message equals the largest label and the number
\* of distinct positive labels of the yielded label array.
C7_LabelsCount ==
    (res # NoArgs /\ res.exc = "none") =>
        /\ \A p \in DOMAIN res.labels :
               /\ p \in res.detected => res.labels[p] # 0
               /\ res.labels[p] # 0 => p \in res.mask
        /\ (res.w = "up_mask_calc" => ~args.in_ROIs_det) =>
               /\ res.info = np_max(res.labels)
               /\ res.info = Cardinality(PositiveLabels(res.labels))

C7_Witness ==
    /\ res # NoArgs
    /\ res.w = "mask_calc"
    /\ res.exc = "none"
    /\ res.info = 2
    /\ PositiveLabels(res.labels) = {1, 2}

\* The ROI-scoped Up Mask builder on every ROI layout and binary detection
\* frame of a small grid
UpMaskRoiArgs ==
    [w : {"up_mask_calc"}, img : {<<f>> : f \in [RoiGrid -> {0, 1}]},
     ROIs_mask : [RoiGrid -> {0, 1, 2}],
     det_frame_index : {0}, det_th : {[n |-> 1, d |-> 4]}, in_ROIs_det : {TRUE},
     in_ROIs_det_method : {"otsu", "threshold"},
     in_ROIs_det_th_corr : {[n |-> 1, d |-> 10]},
     final_opening_fp : {0, 1}, final_dilation_fp : {0, 1}]

InitRoi ==
    /\ NoViewer
    /\ args \in UpMaskRoiArgs
    /\ res = NoArgs

RunUpMaskRoi ==
    /\ res = NoArgs
    /\ res' = up_mask_calc_result(args)
    /\ UNCHANGED <<layers, calls, queue, cbErrors, args>>

NextRoi == RunUpMaskRoi

SpecRoi == InitRoi /\ [][NextRoi]_vars

\* C4: with ROI-scoped detection every nonzero pixel of the output label
\* array carries the label the ROI mask has at that pixel, and every pixel
\* where the ROI mask is 0 is 0 in the output, for any ROI layout.
C4_RoiLabelsPreserved ==
    (res # NoArgs /\ args.w = "up_mask_calc" /\ args.in_ROIs_det /\ res.exc = "none") =>
        \A p \in DOMAIN res.labels :
            /\ res.labels[p] # 0 => res.labels[p] = args.ROIs_mask[p]
            /\ args.ROIs_mask[p] = 0 => res.labels[p] = 0

-----------------------------------------------------------------------------
\* End to end: the Mask Builder on a synthetic series, then the Profile
\* Extractor on the series and the labels the Mask Builder produced.

\* the series: `frames` frames of side x side pixels, all 0 except a
\* block x block square of `value` from frame `onset` on
Scenario == [frames |-> 10, side |-> 50, block |-> 5, onset |-> 3, value |-> 100]

scenario_img(pos) ==
    LET square == Rect(pos[1], pos[2], pos[1] + Scenario.block, pos[2] + Scenario.block)
    IN  [t \in 1..Scenario.frames |->
            [p \in Rect(0, 0, Scenario.side, Scenario.side) |->
                IF t - 1 >= Scenario.onset /\ p \in square THEN Scenario.value ELSE 0]]

\* the corner of the square: the image corners, the middle of an edge, inside
ScenarioPositions == {<<0, 0>>, <<45, 45>>, <<0, 22>>, <<22, 22>>}

e2e_mask_calc_args(a) ==
    [w |-> "mask_calc", img |-> scenario_img(a.pos),
     det_frame_index |-> a.det_frame_index, masking_mode |-> "up",
     up_threshold |-> [n |-> 1, d |-> 5], down_threshold |-> [n |-> -9, d |-> 10],
     opening_footprint |-> 0]

e2e_profile_args(a, labels) ==
    [img |-> scenario_img(a.pos), labels |-> labels, dF_win |-> 3,
     absolute_intensity |-> FALSE, dF_aplitude_lim |-> <<10, 10>>,
     profiles_crop |-> FALSE, profiles_range |-> <<0, 10>>,
     save_data_frame |-> FALSE]

InitE2E ==
    /\ NoViewer
    /\ args \in [pos : ScenarioPositions, det_frame_index : 0..(Scenario.frames - 1)]
    /\ res = NoArgs

\* Build Mask, mode 'up', up_threshold 0.2
E2EMaskBuilder ==
    /\ res = NoArgs
    /\ res' = [stage |-> "mask", mask |-> mask_calc_result(e2e_mask_calc_args(args))]
    /\ UNCHANGED <<layers, calls, queue, cbErrors, args>>

\* Build Profiles on the series and the labels of the mask
E2EProfileExtractor ==
    /\ res # NoArgs
    /\ res.stage = "mask"
    /\ res' = [stage |-> "profile", mask |-> res.mask,
               profile |-> labels_profile_line_result(
                               e2e_profile_args(args, res.mask.labels))]
    /\ UNCHANGED <<layers, calls, queue, cbErrors, args>>

NextE2E == E2EMaskBuilder \/ E2EProfileExtractor

SpecE2E == InitE2E /\ [][NextE2E]_vars

\* C9: the scenario yields exactly one label and one dF/F0 trace that is 0
\* for frames 0-2 and positive for frames 3-9.
C9_OneLabelZeroThenPositive ==
    (res # NoArgs /\ res.stage = "profile") =>
        /\ res.mask.info = 1
        /\ Len(res.profile.profile_dF) = 1
        /\ \A t \in 1..Scenario.frames :
               LET v == res.profile.profile_dF[1][t]
               IN  IF t - 1 < Scenario.onset
                   THEN v = Num(0, 1)
                   ELSE v = Inf \/ (v.k = "num" /\ v.n > 0)

(***************************************************************************)
(* dw_registration._dw_registration, lines 113-149, frame by frame.  A     *)
(* frame of the stack is kept as the input frame and channel it comes      *)
(* from, the rows and columns of the input it still holds, and the affine  *)
(* map it went through.                                                    *)
(***************************************************************************)
\* s[start:stop] of a sequence
PyTake(s, start, stop) ==
    [k \in 1..PySliceLen(start, stop, Len(s)) |-> s[PyClip(start, Len(s)) + k]]

\* no affine map: the frame is the input's
Untransformed == [static |-> "none", moving |-> "none"]

\* lines 121-130: the one affreg.optimize of an invocation, on the pair of
\* master images; the map is named by the images it was optimised on
dw_affine(a) ==
    IF a.use_reference_img
    THEN [static |-> "reference_img[1]", moving |-> "reference_img[0]"]
    ELSE [static |-> "mean(offset_series[:,3])", moving |-> "mean(offset_series[:,0])"]

\* a slip of the stacking order: channels 1 and 2 change places
dw_stack_Swapped(ch0_xform, ch1, ch2_xform, ch3) ==
    <<ch0_xform, ch2_xform, ch1, ch3>>

\* lines 140-144: np.stack((ch0_xform, ch1, ch2_xform, ch3), axis=1), at
\* one frame
dw_stack(ch0_xform, ch1, ch2_xform, ch3) ==
    <<ch0_xform, ch1, ch2_xform, ch3>>

\* lines 113-147 for an offset stack of shape sh = (T, C, Y, X)
dw_xform_series(a, sh) ==
    LET crop_in(n) == IF a.input_crop # 0
                      THEN PySlice(a.input_crop, n - a.input_crop, n)
                      ELSE PySlice(0, n, n)
        crop_out(s) == IF a.output_crop # 0
                       THEN PyTake(s, a.output_crop, Len(s) - a.output_crop)
                       ELSE s
        offset_series(f, ch) ==
            [frame |-> f, ch |-> ch, ys |-> crop_in(sh[3]), xs |-> crop_in(sh[4]),
             xform |-> Untransformed]
        transform(fr) == [fr EXCEPT !.xform = dw_affine(a)]
        xform_series(f) == dw_stack(transform(offset_series(f, 0)),
                                    offset_series(f, 1),
                                    transform(offset_series(f, 2)),
                                    offset_series(f, 3))
    IN  [f \in 1..sh[1] |->
            [c \in 1..4 |->
                [xform_series(f - 1)[c] EXCEPT !.ys = crop_out(@), !.xs = crop_out(@)]]]

\* the arguments: an offset stack of shape (frames, channels, y, x) and a
\* reference image of shape (2, ry, x)
InitAlign ==
    /\ NoViewer
    /\ args \in [frames : 0..MaxT, channels : 3..5, y : 0..(Side + 2),
                 x : {Side + 2}, ry : {Side, Side + 1},
                 use_reference_img : BOOLEAN,
                 input_crop : 0..2, output_crop : 0..2]
    /\ res = NoArgs

\* the worker of dw_registration: what it yields or raises (_dw_registration)
\* and the frames of the yielded stack
RunAlign ==
    /\ res = NoArgs
    /\ LET sh == <<args.frames, args.channels, args.y, args.x>>
           L == << Layer("a", "image", Arr(sh, 0), "gray"),
                   Layer("b", "image", Arr(<<2, args.ry, args.x>>, 0), "gray") >>
           a == [offset_img |-> "a", reference_img |-> "b",
                 use_reference_img |-> args.use_reference_img,
                 input_crop |-> args.input_crop, output_crop |-> args.output_crop]
           ev == _dw_registration(a, L, 0, 1)
       IN  res' = IF ev.t = "yield"
                  THEN [t |-> "yield", shape |-> ev.data.shape,
                        xform_series |-> dw_xform_series(a, sh)]
                  ELSE [t |-> "raise", exc |-> ev.exc]
    /\ UNCHANGED <<layers, calls, queue, cbErrors, args>>

NextAlign == RunAlign

SpecAlign == InitAlign /\ [][NextAlign]_vars

\* C11: the stack the Stack Aligner yields is 4D with the frames of the
\* input and 4 channels in the input's order; channels 0 and 2 of every
\* frame went through one and the same affine map, channels 1 and 3 are the
\* input's frames, untransformed; every channel holds the rows and columns
\* of the input that are left by the input crop and then the output crop.
C11_AlignedStack ==
    (res # NoArgs /\ res.t = "yield") =>
        LET kept(n) == [k \in 1..Max(0, Max(0, n - 2 * args.input_crop)
                                        - 2 * args.output_crop) |->
                            args.input_crop + args.output_crop + k - 1]
            out == res.xform_series
        IN  /\ res.shape = <<args.frames, 4, Len(kept(args.y)), Len(kept(args.x))>>
            /\ Len(out) = args.frames
            /\ \E affine \in {out[f][c].xform : f \in 1..Len(out), c \in {1, 3}} :
                   /\ affine # Untransformed
                   /\ \A f \in 1..Len(out) :
                          /\ Len(out[f]) = 4
                          /\ \A ch \in 0..3 :
                                 /\ out[f][ch + 1].frame = f - 1
                                 /\ out[f][ch + 1].ch = ch
                                 /\ out[f][ch + 1].ys = kept(args.y)
                                 /\ out[f][ch + 1].xs = kept(args.x)
                                 /\ out[f][ch + 1].xform =
                                        IF ch \in {0, 2} THEN affine ELSE Untransformed

\* a 3-frame stack of 5 channels, 6 rows, cropped by 1 and then by 1
C11_Witness ==
    /\ res # NoArgs
    /\ res.t = "yield"
    /\ args.frames = 3 /\ args.channels = 5 /\ args.y = 6
    /\ args.input_crop = 1 /\ args.output_crop = 1
    /\ res.shape = <<3, 4, 2, 2>>
    /\ res.xform_series[3][3].xform = dw_affine(args)
    /\ res.xform_series[3][4].ys = <<2, 3>>

====
